---- MODULE Spec2Model ----
(***************************************************************************)
(* Model of src/compiler/control-path-state.h (V8): ControlPathState, a    *)
(* persistent stack of blocks of NodeStates with the side index states_,   *)
(* and AdvancedReducerWithControlPathState, the per-node tables that a     *)
(* reducer drives to a fixpoint.                                           *)
(*                                                                         *)
(* A FunctionalList is modelled by the sequence of its elements, front     *)
(* first; a PersistentMap by a total function whose absent keys hold the   *)
(* default value.  Both are values: a copy is the same value, and an       *)
(* operation on a copy yields a new value.                                 *)
(***************************************************************************)
EXTENDS Integers, Sequences, FiniteSets, TLC

\* ------------------------------------------------------------------ bounds
NumNodes == 2
MaxDepth == 2
MaxOps == 3
NumGraph == 3
MaxCalls == 3

\* ------------------------------------------------------------- NodeState
NullNode == 0
Nodes == 1..NumNodes

\* The default-constructed NodeState (no owner, not set).
NoState == [node |-> NullNode, val |-> FALSE]

\* The set NodeStates a pass can add: an owning node and an opaque payload.
SetStates == [node : Nodes, val : BOOLEAN]

IsSet(s) == s.node # NullNode

\* -------------------------------------------------------- FunctionalList
Size(l) == Len(l)

Front(l) == Head(l)

Rest(l) == Tail(l)

DropFront(l) == Tail(l)

PushFront(x, l) == <<x>> \o l

\* operator==: equal sizes, then element by element (stopping early where the
\* two lists share their cells).  AddState rebuilds the outer cell of blocks_
\* on every call (DropFront, then PushFront without a hint) and UpdateStates
\* relies on this comparison to return NoChange on a revisit, so the comparison
\* is by elements, not by the identity of the first cell.
ListEquals(l, m) ==
  /\ Size(l) = Size(m)
  /\ \A i \in 1..Size(l) : l[i] = m[i]

\* PushFront with a hint: the hint itself when it already is the wanted list.
PushFrontHint(x, l, hint) ==
  IF Size(hint) = Size(l) + 1 /\ Front(hint) = x /\ ListEquals(Rest(hint), l)
  THEN hint
  ELSE PushFront(x, l)

\* --------------------------------------------------------- PersistentMap
Keys == Nodes \X (1..MaxDepth)

\* The map holds, per node and per depth, the value of the key <<node, depth>>;
\* a key that was never set holds the default value.
EmptyMap == [n \in Nodes |-> [d \in 1..MaxDepth |-> NoState]]

MapGet(m, k) == IF k \in Keys THEN m[k[1]][k[2]] ELSE NoState

MapSet(m, k, v) == [m EXCEPT ![k[1]][k[2]] = v]

\* ------------------------------------------------------ ControlPathState
\* blocks_ (front block first) and states_.
EmptyPathState == [blocks |-> <<>>, states |-> EmptyMap]

IsEmpty(s) == Size(s.blocks) = 0

Equals(s, t) == ListEquals(s.blocks, t.blocks)

\* Mutant: only the entry at the current depth is read.
LookupFrom_FrontOnly(s, node, depth) ==
  IF depth > 0 THEN MapGet(s.states, <<node, depth>>) ELSE NoState

RECURSIVE LookupFrom(_, _, _)
LookupFrom(s, node, depth) ==
  IF depth > 0
  THEN IF IsSet(MapGet(s.states, <<node, depth>>))
       THEN MapGet(s.states, <<node, depth>>)
       ELSE LookupFrom(s, node, depth - 1)
  ELSE NoState

LookupState(s, node) == LookupFrom(s, node, Size(s.blocks))

\* Mutant: an entry that is already set is not overwritten.
AddState_KeepIndexed(s, node, state, hint) ==
  LET blocks1 == PushFront(PushFront(state, Front(s.blocks)), DropFront(s.blocks))
  IN [blocks |-> blocks1,
      states |-> IF IsSet(MapGet(s.states, <<node, Size(blocks1)>>))
                 THEN s.states
                 ELSE MapSet(s.states, <<node, Size(blocks1)>>, state)]

\* Mutant: a hint that has a front block is taken as the new front block.
AddState_TakesHint(s, node, state, hint) ==
  LET new_front == IF Size(hint.blocks) > 0
                   THEN Front(hint.blocks)
                   ELSE PushFront(state, Front(s.blocks))
      blocks1 == PushFront(new_front, DropFront(s.blocks))
  IN [blocks |-> blocks1,
      states |-> MapSet(s.states, <<node, Size(blocks1)>>, state)]

\* AddState on a state that has a front block.
AddState(s, node, state, hint) ==
  LET prev_front == Front(s.blocks)
      new_front == IF Size(hint.blocks) > 0
                   THEN PushFrontHint(state, prev_front, Front(hint.blocks))
                   ELSE PushFront(state, prev_front)
      blocks1 == PushFront(new_front, DropFront(s.blocks))
  IN [blocks |-> blocks1,
      states |-> MapSet(s.states, <<node, Size(blocks1)>>, state)]

\* Mutant: the state goes into the front block when there is one.
AddStateInNewBlock_SameBlock(s, node, state) ==
  IF Size(s.blocks) = 0
  THEN [blocks |-> PushFront(PushFront(state, <<>>), s.blocks),
        states |-> MapSet(s.states, <<node, 1>>, state)]
  ELSE AddState(s, node, state, EmptyPathState)

AddStateInNewBlock(s, node, state) ==
  LET new_block == PushFront(state, <<>>)
  IN [blocks |-> PushFront(new_block, s.blocks),
      states |-> MapSet(s.states, <<node, Size(s.blocks) + 1>>, state)]

\* Mutant: the entries of the node are cleared at every depth.
RECURSIVE ClearBlock_AllDepths(_, _, _)
ClearBlock_AllDepths(m, block, depth) ==
  IF Size(block) = 0
  THEN m
  ELSE ClearBlock_AllDepths(
         [m EXCEPT ![Front(block).node] = [d \in 1..MaxDepth |-> NoState]],
         DropFront(block), depth)

\* The body of the two dropping loops: clear the index entries of the front
\* block at the current depth, then drop the block.
RECURSIVE ClearBlock(_, _, _)
ClearBlock(m, block, depth) ==
  IF Size(block) = 0
  THEN m
  ELSE ClearBlock(MapSet(m, <<Front(block).node, depth>>, NoState),
                  DropFront(block), depth)

\* Mutant: the entries are cleared at the depth the list has after the drop.
DropFrontBlock_ClearsAfterDrop(s) ==
  [blocks |-> DropFront(s.blocks),
   states |-> IF Size(s.blocks) = 1
              THEN s.states
              ELSE ClearBlock(s.states, Front(s.blocks), Size(s.blocks) - 1)]

\* Mutant: the block is dropped, its index entries stay.
DropFrontBlock_KeepIndex(s) ==
  [blocks |-> DropFront(s.blocks), states |-> s.states]

DropFrontBlock(s) ==
  [blocks |-> DropFront(s.blocks),
   states |-> ClearBlock(s.states, Front(s.blocks), Size(s.blocks))]

\* while (other.blocks_.Size() > blocks_.Size()) other.blocks_.DropFront();
RECURSIVE TrimOther(_, _)
TrimOther(other, size) ==
  IF Size(other) > size THEN TrimOther(DropFront(other), size) ELSE other

\* while (blocks_.Size() > other.blocks_.Size()) { clear; drop }
RECURSIVE TrimThis(_, _)
TrimThis(s, size) ==
  IF Size(s.blocks) > size THEN TrimThis(DropFrontBlock(s), size) ELSE s

\* Mutant: the third loop runs its body once before it tests the condition.
DropInLockstep_DropsFirst(s, other) ==
  IF Size(s.blocks) > 0 THEN DropFrontBlock(s) ELSE s

\* Mutant: the third loop is missing.
DropInLockstep_Never(s, other) == s

\* while (blocks_ != other.blocks_) { clear; drop; other drop }
RECURSIVE DropInLockstep(_, _)
DropInLockstep(s, other) ==
  IF ~ListEquals(s.blocks, other)
  THEN DropInLockstep(DropFrontBlock(s), DropFront(other))
  ELSE s

\* Mutant: the loop that trims the receiver is missing; a deeper receiver stays.
ResetToCommonAncestor_KeepsDeeper(s, other) ==
  LET other1 == TrimOther(other.blocks, Size(s.blocks))
  IN IF Size(s.blocks) > Size(other1)
     THEN s
     ELSE DropInLockstep(s, other1)

\* Mutant: the loops stop one block early.
ResetToCommonAncestor_StopsEarly(s, other) ==
  LET other1 == TrimOther(other.blocks, Size(s.blocks))
      s1 == TrimThis(s, Size(other1))
      r == DropInLockstep(s1, other1)
  IN IF Size(r.blocks) < Size(s.blocks)
     THEN TrimThis(s, Size(r.blocks) + 1)
     ELSE r

ResetToCommonAncestor(s, other) ==
  LET other1 == TrimOther(other.blocks, Size(s.blocks))
      s1 == TrimThis(s, Size(other1))
  IN DropInLockstep(s1, other1)

\* The debug check: every first occurrence of a node in the block at a depth
\* is the index entry at that depth, and nothing else is in the index.
RECURSIVE CheckBlock(_, _, _, _)
CheckBlock(copy, block, depth, seen) ==
  IF Size(block) = 0
  THEN [ok |-> TRUE, copy |-> copy]
  ELSE LET state == Front(block)
       IN IF state.node \notin seen
          THEN IF MapGet(copy, <<state.node, depth>>) # state
               THEN [ok |-> FALSE, copy |-> copy]
               ELSE CheckBlock(MapSet(copy, <<state.node, depth>>, NoState),
                               DropFront(block), depth, seen \cup {state.node})
          ELSE CheckBlock(copy, DropFront(block), depth, seen)

RECURSIVE CheckBlocks(_, _, _)
CheckBlocks(copy, blocks, depth) ==
  IF Size(blocks) = 0
  THEN \A k \in Keys : ~IsSet(MapGet(copy, k))
  ELSE LET r == CheckBlock(copy, Front(blocks), depth, {})
       IN r.ok /\ CheckBlocks(r.copy, DropFront(blocks), depth - 1)

BlocksAndStatesInvariant(s) == CheckBlocks(s.states, s.blocks, Size(s.blocks))

\* ------------------------------------------------------------------ state
VARIABLES
  a, b,          \* two ControlPathState values a pass holds
  p,             \* the value both were copied from at the last Fork
  pre,           \* the receiver as it was before the last operation
  last,          \* the last operation and its arguments
  sinceA, sinceB,\* the additions made to a and to b since the last Fork/Reset
  aFromP,        \* a is p followed by the additions of sinceA (no Reset since)
  failed,        \* a CHECK/DCHECK of the list primitive fired: the pass aborted
  nops,          \* number of additions made so far
  node_states,   \* NodeAuxData<ControlPathState>: per control node
  reduced,       \* NodeAuxData<bool>: per control node
  mlast,         \* the last reducer call, its arguments and its Reduction
  mpre,          \* node_states and reduced as they were before that call
  changes,       \* per control node, how often a call on it returned Changed
  ncalls,        \* number of reducer calls made so far
  committed,     \* per control node, the last call that stored a state for it
  mprev          \* committed[mlast.node] as it was before the last call

vars == <<a, b, p, pre, last, sinceA, sinceB, aFromP, failed, nops,
          node_states, reduced, mlast, mpre, changes, ncalls, committed,
          mprev>>

pathVars == <<a, b, p, pre, last, sinceA, sinceB, aFromP, failed, nops>>

mixinVars == <<node_states, reduced, mlast, mpre, changes, ncalls, committed,
               mprev>>

\* The control nodes of the graph: a chain, node g taking control from g - 1.
GraphNodes == 1..NumGraph

NoOp == [op |-> "Init", side |-> "A", node |-> NullNode, state |-> NoState,
         since |-> <<>>, fromP |-> FALSE]

NoCall == [op |-> "Init", node |-> NullNode, new_state |-> EmptyPathState,
           result |-> "NoChange", prev_states |-> EmptyPathState,
           additional_state |-> NoState, in_new_block |-> FALSE]

\* No call has stored a state for the node yet.
NoCommit == [op |-> "Init"]

\* AdvancedReducerWithControlPathState(editor, zone, graph)
InitMixin ==
  /\ node_states = [g \in GraphNodes |-> EmptyPathState]
  /\ reduced = [g \in GraphNodes |-> FALSE]
  /\ mlast = NoCall
  /\ mpre = [node_states |-> [g \in GraphNodes |-> EmptyPathState],
             reduced |-> [g \in GraphNodes |-> FALSE]]
  /\ changes = [g \in GraphNodes |-> 0]
  /\ ncalls = 0
  /\ committed = [g \in GraphNodes |-> NoCommit]
  /\ mprev = NoCommit

\* ControlPathState(zone)
InitPath ==
  /\ a = EmptyPathState
  /\ b = EmptyPathState
  /\ p = EmptyPathState
  /\ pre = EmptyPathState
  /\ last = NoOp
  /\ sinceA = <<>>
  /\ sinceB = <<>>
  /\ aFromP = TRUE
  /\ failed = FALSE
  /\ nops = 0

Init == InitPath /\ InitMixin

Cur(side) == IF side = "A" THEN a ELSE b

Other(side) == IF side = "A" THEN b ELSE a

Since(side) == IF side = "A" THEN sinceA ELSE sinceB

\* The receiver becomes new; the addition is logged.
Store(side, new, entry) ==
  /\ IF side = "A"
     THEN a' = new /\ sinceA' = Append(sinceA, entry) /\ UNCHANGED <<b, sinceB>>
     ELSE b' = new /\ sinceB' = Append(sinceB, entry) /\ UNCHANGED <<a, sinceA>>
  /\ pre' = Cur(side)
  /\ nops' = nops + 1

\* side.AddState(zone, node, state, hint).  blocks_.Front() and
\* blocks_.DropFront() require a non-empty list: on an empty receiver the
\* list's check fires and nothing is stored.
DoAddState(side) ==
  /\ ~failed
  /\ nops < MaxOps
  /\ \E state \in SetStates, hint \in {EmptyPathState, Other(side)} :
       LET entry == [op |-> "AddState", node |-> state.node, state |-> state]
       IN /\ last' = [op |-> "AddState", side |-> side, node |-> state.node,
                      state |-> state, since |-> Since(side), fromP |-> FALSE]
          /\ IF Size(Cur(side).blocks) > 0
             THEN /\ Store(side, AddState(Cur(side), state.node, state, hint), entry)
                  /\ UNCHANGED failed
             ELSE /\ failed' = TRUE
                  /\ pre' = Cur(side)
                  /\ UNCHANGED <<a, b, sinceA, sinceB, nops>>
  /\ UNCHANGED <<p, aFromP>>
  /\ UNCHANGED mixinVars

\* side.AddStateInNewBlock(zone, node, state)
DoAddStateInNewBlock(side) ==
  /\ ~failed
  /\ nops < MaxOps
  /\ Size(Cur(side).blocks) < MaxDepth
  /\ \E state \in SetStates :
       /\ last' = [op |-> "AddStateInNewBlock", side |-> side,
                   node |-> state.node, state |-> state,
                   since |-> Since(side), fromP |-> FALSE]
       /\ Store(side, AddStateInNewBlock(Cur(side), state.node, state),
                [op |-> "AddStateInNewBlock", node |-> state.node,
                 state |-> state])
  /\ UNCHANGED <<p, aFromP, failed>>
  /\ UNCHANGED mixinVars

\* b is made a copy of a (a branch: both paths start from the same state).
Fork ==
  /\ ~failed
  /\ b' = a
  /\ p' = a
  /\ pre' = a
  /\ last' = [NoOp EXCEPT !.op = "Fork"]
  /\ sinceA' = <<>>
  /\ sinceB' = <<>>
  /\ aFromP' = TRUE
  /\ UNCHANGED <<a, failed, nops>>
  /\ UNCHANGED mixinVars

\* Mutant: other is taken by reference, the caller's blocks_ are dropped too.
CallersOther_ByReference(s, other) ==
  [blocks |-> ResetToCommonAncestor(s, other).blocks, states |-> other.states]

\* The caller's argument after s.ResetToCommonAncestor(other): the parameter is
\* a copy, the loops drop blocks of the copy only.
CallersOther(s, other) == other

\* a.ResetToCommonAncestor(b); other is passed by value, b is not touched.
DoReset ==
  /\ ~failed
  /\ a' = ResetToCommonAncestor(a, b)
  /\ pre' = a
  /\ last' = [NoOp EXCEPT !.op = "Reset", !.since = sinceA, !.fromP = aFromP]
  /\ sinceA' = <<>>
  /\ aFromP' = FALSE
  /\ b' = CallersOther(a, b)
  /\ UNCHANGED <<p, sinceB, failed, nops>>
  /\ UNCHANGED mixinVars

Next ==
  \/ DoAddState("A")
  \/ DoAddState("B")
  \/ DoAddStateInNewBlock("A")
  \/ DoAddStateInNewBlock("B")
  \/ Fork
  \/ DoReset

Spec == Init /\ [][Next]_vars

\* ------------------------------------ AdvancedReducerWithControlPathState
\* NodeAuxData<bool>::Set: stores data when it differs; true iff it differed.
AuxSetBool(table, node, data) ==
  [changed |-> table[node] # data,
   table |-> IF table[node] # data THEN [table EXCEPT ![node] = data] ELSE table]

\* NodeAuxData<ControlPathState>::Set: the same, compared with operator!=.
AuxSetState(table, node, data) ==
  [changed |-> ~Equals(table[node], data),
   table |-> IF ~Equals(table[node], data)
             THEN [table EXCEPT ![node] = data]
             ELSE table]

\* NodeProperties::GetControlInput(node, 0) in the chain.
GetControlInput(node) == node - 1

\* Mutant: every call that stores reports Changed.
Reduction_Always(reduced_changed, node_states_changed) == "Changed"

\* Mutant: Changed only when both changed.
Reduction_Both(reduced_changed, node_states_changed) ==
  IF reduced_changed /\ node_states_changed THEN "Changed" ELSE "NoChange"

\* if (reduced_changed || node_states_changed) return Changed(state_owner);
Reduction(reduced_changed, node_states_changed) ==
  IF reduced_changed \/ node_states_changed THEN "Changed" ELSE "NoChange"

\* Mutant: the flag is flipped instead of set.
UpdateStates_Toggle(state_owner, new_state) ==
  LET r == AuxSetBool(reduced, state_owner, ~reduced[state_owner])
      s == AuxSetState(node_states, state_owner, new_state)
  IN [reduced |-> r.table, node_states |-> s.table,
      result |-> Reduction(r.changed, s.changed)]

\* UpdateStates(state_owner, new_state): the tables and the Reduction.
UpdateStates(state_owner, new_state) ==
  LET r == AuxSetBool(reduced, state_owner, TRUE)
      s == AuxSetState(node_states, state_owner, new_state)
  IN [reduced |-> r.table, node_states |-> s.table,
      result |-> Reduction(r.changed, s.changed)]

\* Mutant: in_new_block is not looked at.
DerivedState_IgnoresFlag(state_owner, prev_states, additional_node, additional_state, in_new_block) ==
  IF IsEmpty(prev_states)
  THEN AddStateInNewBlock(prev_states, additional_node, additional_state)
  ELSE AddState(prev_states, additional_node, additional_state,
                node_states[state_owner])

\* The state the five-argument UpdateStates hands on.
DerivedState(state_owner, prev_states, additional_node, additional_state, in_new_block) ==
  IF in_new_block \/ IsEmpty(prev_states)
  THEN AddStateInNewBlock(prev_states, additional_node, additional_state)
  ELSE AddState(prev_states, additional_node, additional_state,
                node_states[state_owner])

\* Mutant: the node is marked reduced before the input's flag is looked at.
Take_MarksReduced(node) ==
  IF ~reduced[GetControlInput(node)]
  THEN [reduced |-> [reduced EXCEPT ![node] = TRUE],
        node_states |-> node_states, result |-> "NoChange"]
  ELSE UpdateStates(node, node_states[GetControlInput(node)])

\* Mutant: the input's flag is not looked at.
Take_NoCheck(node) == UpdateStates(node, node_states[GetControlInput(node)])

\* TakeStatesFromFirstControl(node): the tables and the Reduction.
TakeStatesFromFirstControl(node) ==
  LET input == GetControlInput(node)
  IN IF ~reduced[input]
     THEN [reduced |-> reduced, node_states |-> node_states,
           result |-> "NoChange"]
     ELSE UpdateStates(node, node_states[input])

\* The record of the calls per node: the last call that reached the
\* two-argument UpdateStates for the node (mprev is the one before this call).
Track ==
  /\ mprev' = committed[mlast'.node]
  /\ committed' =
       IF \/ mlast'.op # "TakeStatesFromFirstControl"
          \/ reduced[GetControlInput(mlast'.node)]
       THEN [committed EXCEPT ![mlast'.node] = mlast']
       ELSE committed

\* A reducer call returned r: the tables, the record of the call.
Return(call, r) ==
  /\ reduced' = r.reduced
  /\ node_states' = r.node_states
  /\ mlast' = [call EXCEPT !.result = r.result]
  /\ mpre' = [node_states |-> node_states, reduced |-> reduced]
  /\ changes' = IF r.result = "Changed"
                THEN [changes EXCEPT ![call.node] = @ + 1]
                ELSE changes

CallTake(node) ==
  Return([NoCall EXCEPT !.op = "TakeStatesFromFirstControl", !.node = node,
                        !.new_state = node_states[GetControlInput(node)]],
         TakeStatesFromFirstControl(node))

CallUpdate(node, new_state) ==
  Return([NoCall EXCEPT !.op = "UpdateStates", !.node = node,
                        !.new_state = new_state],
         UpdateStates(node, new_state))

CallUpdate5(node, prev_states, additional_state, in_new_block) ==
  LET new_state == DerivedState(node, prev_states, additional_state.node,
                                additional_state, in_new_block)
  IN Return([NoCall EXCEPT !.op = "UpdateStates5", !.node = node,
                           !.new_state = new_state,
                           !.prev_states = prev_states,
                           !.additional_state = additional_state,
                           !.in_new_block = in_new_block],
            UpdateStates(node, new_state))

\* What a reducer hands to the two-argument UpdateStates: the empty state (a
\* start node) or the stored state of one node narrowed to that of another (a
\* merge; one node twice gives the stored state itself).
MergedStates ==
  {EmptyPathState} \cup
  {ResetToCommonAncestor(node_states[g], node_states[h]) : g, h \in GraphNodes}

\* A node that takes control from another node of the graph is visited.
VisitTake ==
  /\ ncalls < MaxCalls
  /\ ncalls' = ncalls + 1
  /\ \E node \in GraphNodes \ {1} : CallTake(node)
  /\ Track
  /\ UNCHANGED pathVars

VisitUpdate ==
  /\ ncalls < MaxCalls
  /\ ncalls' = ncalls + 1
  /\ \E node \in GraphNodes, new_state \in MergedStates :
       CallUpdate(node, new_state)
  /\ Track
  /\ UNCHANGED pathVars

\* The NodeStates the reducer adds: one per node (the payload is fixed).
ReducerStates == {s \in SetStates : s.val}

\* The base is the stored state of the control input (of the node itself for
\* the start of the chain); depth is capped.
BaseOf(node) == IF node = 1 THEN node_states[node]
                ELSE node_states[GetControlInput(node)]

VisitUpdate5 ==
  /\ ncalls < MaxCalls
  /\ ncalls' = ncalls + 1
  /\ \E node \in GraphNodes, additional_state \in ReducerStates,
        in_new_block \in BOOLEAN :
       /\ (in_new_block \/ IsEmpty(BaseOf(node)))
            => Size(BaseOf(node).blocks) < MaxDepth
       /\ CallUpdate5(node, BaseOf(node), additional_state, in_new_block)
  /\ Track
  /\ UNCHANGED pathVars

NextMixin == VisitTake \/ VisitUpdate \/ VisitUpdate5

MixinSpec == Init /\ [][NextMixin]_vars

\* ------------------------------------------------------------- the chain
\* The path states built by at most k additions to the empty state.
RECURSIVE BuiltIn(_)
BuiltIn(k) ==
  IF k = 0
  THEN {EmptyPathState}
  ELSE LET prev == BuiltIn(k - 1)
       IN prev
          \cup {AddStateInNewBlock(s, f.node, f) :
                  s \in {x \in prev : Size(x.blocks) < MaxDepth}, f \in SetStates}
          \cup {AddState(s, f.node, f, EmptyPathState) :
                  s \in {x \in prev : ~IsEmpty(x)}, f \in SetStates}

ChainStates == BuiltIn(MaxDepth)

\* The head of the chain is visited: it commits a state S, the same S on every
\* visit.
ChainCommit ==
  /\ \E S \in ChainStates :
       /\ reduced[1] => S = node_states[1]
       /\ CallUpdate(1, S)
  /\ UNCHANGED <<ncalls, committed, mprev>>
  /\ UNCHANGED pathVars

\* Another node of the chain is visited: it takes the state of its control
\* input.
ChainInherit(node) ==
  /\ CallTake(node)
  /\ UNCHANGED <<ncalls, committed, mprev>>
  /\ UNCHANGED pathVars

NextChain == ChainCommit \/ \E node \in GraphNodes \ {1} : ChainInherit(node)

\* The engine visits every node again and again.
ChainSpec ==
  /\ Init
  /\ [][NextChain]_vars
  /\ WF_vars(ChainCommit)
  /\ \A node \in GraphNodes \ {1} : WF_vars(ChainInherit(node))

\* ----------------------------------------------------------------- claims
\* The block at a depth counted from the bottom of the stack (the front block
\* is at depth Size(blocks)).
BlockAt(s, d) == s.blocks[Size(s.blocks) - d + 1]

Elements(l) == {l[i] : i \in 1..Len(l)}

\* The front-most (most recently pushed) NodeState of a node in a list.
NewestIn(l, n) ==
  LET occ == {i \in 1..Len(l) : l[i].node = n}
  IN IF occ = {} THEN NoState
     ELSE l[CHOOSE i \in occ : \A j \in occ : i <= j]

RECURSIVE Flatten(_)
Flatten(blocks) ==
  IF Len(blocks) = 0 THEN <<>> ELSE Head(blocks) \o Flatten(Tail(blocks))

IndexMatchesBlocks(s) ==
  \A n \in Nodes, d \in 1..MaxDepth :
    MapGet(s.states, <<n, d>>) =
      IF d <= Size(s.blocks) THEN NewestIn(BlockAt(s, d), n) ELSE NoState

\* C1: after any sequence of additions and narrowings, the side index holds at
\* every depth up to the stack size exactly the newest NodeState of each node of
\* the block at that depth, and no set entry at any other key; the debug check
\* of the class passes.
C1_IndexMatchesBlocks ==
  \A s \in {a, b} : IndexMatchesBlocks(s) /\ BlocksAndStatesInvariant(s)

\* A narrowing has just dropped a block and left a block in which a node is
\* shadowed.
C1_Witness ==
  /\ last.op = "Reset"
  /\ Size(a.blocks) < Size(pre.blocks)
  /\ Size(a.blocks) >= 1
  /\ \E n \in Nodes :
       Cardinality({i \in 1..Len(BlockAt(a, 1)) : BlockAt(a, 1)[i].node = n}) >= 2

LookupIsNewest(s) ==
  \A n \in Nodes : LookupState(s, n) = NewestIn(Flatten(s.blocks), n)

\* C2: LookupState of a node is the most recently added NodeState of that node
\* among those still in the block stack, and the default NodeState when there
\* is none (never added, or every addition dropped by a narrowing).
C2_LookupIsNewest == LookupIsNewest(a) /\ LookupIsNewest(b)

\* A narrowing has just dropped every NodeState of one node and kept one of
\* another node in a lower block.
C2_Witness ==
  /\ last.op = "Reset"
  /\ \E n \in Nodes : IsSet(LookupState(pre, n)) /\ ~IsSet(LookupState(a, n))
  /\ \E m \in Nodes : IsSet(LookupState(a, m))

AddedStates(since) == {since[i].state : i \in 1..Len(since)}

AddedNodes(since) == {since[i].node : i \in 1..Len(since)}

\* a and b were both copied from p and each then extended; a.Reset(b) just ran.
NarrowedAfterDivergence ==
  /\ last.op = "Reset"
  /\ last.fromP
  /\ Len(last.since) >= 1
  /\ Len(sinceB) >= 1

\* Both paths began with AddStateInNewBlock, adding different NodeStates.
DivergedInNewBlocks ==
  /\ NarrowedAfterDivergence
  /\ last.since[1].op = "AddStateInNewBlock"
  /\ sinceB[1].op = "AddStateInNewBlock"
  /\ last.since[1].state # sinceB[1].state

\* a is back at p, and the nodes added only after the divergence have no state.
BackAtCommonPrefix ==
  /\ Equals(a, p)
  /\ \A n \in AddedNodes(last.since) \cup AddedNodes(sinceB) :
       ~IsSet(LookupState(p, n)) => LookupState(a, n) = NoState

\* C3 as claimed: whenever a and b are copies of p extended by non-empty
\* sequences of AddState/AddStateInNewBlock adding different NodeStates,
\* a.ResetToCommonAncestor(b) leaves a equal to p.
C3_Original ==
  (NarrowedAfterDivergence /\ AddedStates(last.since) \cap AddedStates(sinceB) = {})
    => BackAtCommonPrefix

\* C3 amended: when both sequences begin with AddStateInNewBlock and these two
\* calls add different NodeStates, a.ResetToCommonAncestor(b) leaves a equal to
\* p and every node added only after the divergence looks up as not set.
C3_NarrowToPrefix == DivergedInNewBlocks => BackAtCommonPrefix

\* The amended case on a non-empty p, with a node that only the branches added.
C3_Witness ==
  /\ DivergedInNewBlocks
  /\ ~IsEmpty(p)
  /\ \E n \in AddedNodes(last.since) : ~IsSet(LookupState(p, n))

\* C4: after a.ResetToCommonAncestor(b) every set entry of a's index is a
\* NodeState of the block at the same depth of the original a and of b.
C4_JoinSurvival ==
  last.op = "Reset" =>
    \A k \in Keys :
      IsSet(MapGet(a.states, k)) =>
        /\ k[2] <= Size(pre.blocks)
        /\ MapGet(a.states, k) \in Elements(BlockAt(pre, k[2]))
        /\ k[2] <= Size(b.blocks)
        /\ MapGet(a.states, k) \in Elements(BlockAt(b, k[2]))

\* A narrowing in which both inputs had a block the other lacks and a common
\* NodeState survived.
C4_Witness ==
  /\ last.op = "Reset"
  /\ Size(pre.blocks) > Size(a.blocks)
  /\ Size(b.blocks) > Size(a.blocks)
  /\ \E k \in Keys : IsSet(MapGet(a.states, k))

\* C5: p non-empty, a = p + AddStateInNewBlock(n3, f3) + ..., b = p +
\* AddStateInNewBlock(n4, f4) + ..., f3 # f4: a.ResetToCommonAncestor(b) has the
\* depth of p, equals p, and looks every node up as p does.
C5_BranchAndMerge ==
  (DivergedInNewBlocks /\ ~IsEmpty(p)) =>
    /\ Size(a.blocks) = Size(p.blocks)
    /\ Equals(a, p)
    /\ \A n \in Nodes : LookupState(a, n) = LookupState(p, n)

\* The scenario with n3 and n4 unknown to p and a node that p knows.
C5_Witness ==
  /\ DivergedInNewBlocks
  /\ ~IsEmpty(p)
  /\ ~IsSet(LookupState(p, last.since[1].node))
  /\ ~IsSet(LookupState(p, sinceB[1].node))
  /\ \E n \in Nodes : IsSet(LookupState(a, n))

\* C6 as claimed: AddState on a state with no block completes and gives what
\* AddStateInNewBlock gives.
C6_ExtendOnEmpty ==
  (last.op = "AddState" /\ IsEmpty(pre)) =>
    /\ ~failed
    /\ Cur(last.side) = AddStateInNewBlock(pre, last.node, last.state)

\* C7: two AddState calls in a row for one node in the same block: the lookup
\* gives the second NodeState, the front block holds the second on top of the
\* first, and the depth is that before the call.
C7_Shadowing ==
  LET s == Since(last.side)
      n == Len(s)
      cur == Cur(last.side)
  IN (/\ last.op = "AddState"
      /\ ~failed
      /\ n >= 2
      /\ s[n - 1].op = "AddState"
      /\ s[n - 1].node = s[n].node) =>
       /\ LookupState(cur, s[n].node) = s[n].state
       /\ s[n - 1].state # s[n].state => LookupState(cur, s[n].node) # s[n - 1].state
       /\ Size(Front(cur.blocks)) >= 2
       /\ Front(cur.blocks)[1] = s[n].state
       /\ Front(cur.blocks)[2] = s[n - 1].state
       /\ Size(cur.blocks) = Size(pre.blocks)

\* Two different NodeStates of one node were just added in a row.
C7_Witness ==
  LET s == Since(last.side)
      n == Len(s)
  IN /\ last.op = "AddState"
     /\ ~failed
     /\ n >= 2
     /\ s[n - 1].op = "AddState"
     /\ s[n - 1].node = s[n].node
     /\ s[n - 1].state # s[n].state

\* C8: after UpdateStates(node, new_state) the node is reduced and stores a
\* state equal to new_state; the Reduction is Changed exactly when the node was
\* not reduced before or stored a state not equal to new_state.
C8_CommitOutcome ==
  mlast.op = "UpdateStates" =>
    /\ reduced[mlast.node]
    /\ Equals(node_states[mlast.node], mlast.new_state)
    /\ mlast.result \in {"Changed", "NoChange"}
    /\ mlast.result = "Changed" <=>
         \/ ~mpre.reduced[mlast.node]
         \/ ~Equals(mpre.node_states[mlast.node], mlast.new_state)

\* A reduced node was given a different state: Changed by the state alone.
C8_Witness ==
  /\ mlast.op = "UpdateStates"
  /\ mpre.reduced[mlast.node]
  /\ ~Equals(mpre.node_states[mlast.node], mlast.new_state)
  /\ mlast.result = "Changed"

\* C9: TakeStatesFromFirstControl(node) with an unreduced control input gives
\* NoChange and leaves both tables as they were, node's own entries included.
C9_InheritUnreduced ==
  (/\ mlast.op = "TakeStatesFromFirstControl"
   /\ ~mpre.reduced[GetControlInput(mlast.node)]) =>
     /\ mlast.result = "NoChange"
     /\ node_states = mpre.node_states
     /\ reduced = mpre.reduced

\* The control input holds a state, is not reduced, and the node stays unmarked.
C9_Witness ==
  /\ mlast.op = "TakeStatesFromFirstControl"
  /\ ~mpre.reduced[GetControlInput(mlast.node)]
  /\ ~reduced[mlast.node]
  /\ mlast.result = "NoChange"

\* Every node of the chain is reduced and stores a state equal to the head's.
ChainConverged ==
  \A g \in GraphNodes : reduced[g] /\ Equals(node_states[g], node_states[1])

WasConverged ==
  \A g \in GraphNodes :
    mpre.reduced[g] /\ Equals(mpre.node_states[g], mpre.node_states[1])

ChainStep ==
  \* the head stores the committed state
  /\ (mlast.op = "UpdateStates") => Equals(node_states[1], mlast.new_state)
  \* no node reports Changed twice, and at the fixpoint each has reported once
  /\ \A g \in GraphNodes : changes[g] <= 1
  /\ ChainConverged => \A g \in GraphNodes : changes[g] = 1
  \* a visit of a node whose control input is reduced settles the node
  /\ (mlast.op = "TakeStatesFromFirstControl"
      /\ mpre.reduced[GetControlInput(mlast.node)]) =>
        /\ reduced[mlast.node]
        /\ Equals(node_states[mlast.node],
                  node_states[GetControlInput(mlast.node)])
  \* a visit at the fixpoint reports NoChange
  /\ (mlast.op # "Init" /\ WasConverged) => mlast.result = "NoChange"

\* C10: in a chain whose head commits S and whose other nodes only take the
\* state of their control input, under fair revisiting every node ends reduced
\* with a state equal to S and stays so; each node reports Changed exactly once,
\* a visit in chain order settles its node, and visits at the fixpoint report
\* NoChange.
C10_ChainFixpoint == []ChainStep /\ <>[]ChainConverged

\* The chain has converged on a non-empty S and a later visit found no change.
C10_Witness ==
  /\ ChainConverged
  /\ WasConverged
  /\ ~IsEmpty(node_states[1])
  /\ \A g \in GraphNodes : changes[g] = 1
  /\ mlast.op = "TakeStatesFromFirstControl"
  /\ mlast.result = "NoChange"

\* C11: every node starts unreduced with the empty state, and no call ever
\* takes a node's reduced flag from true back to false.
C11_ReducedIsMonotone ==
  /\ \A g \in GraphNodes : ~reduced[g] /\ node_states[g] = EmptyPathState
  /\ [][\A g \in GraphNodes : reduced[g] => reduced'[g]]_vars

\* A reduced node was entered again and got a new state.
C11_Witness ==
  /\ mlast.op # "Init"
  /\ mpre.reduced[mlast.node]
  /\ reduced[mlast.node]
  /\ ~Equals(mpre.node_states[mlast.node], node_states[mlast.node])

SameStateAndLookups(x, y) ==
  /\ x = y
  /\ Size(x.blocks) = Size(y.blocks)
  /\ \A n \in Nodes : LookupState(x, n) = LookupState(y, n)

C12_OtherNodesUntouched ==
  mlast.op # "Init" =>
    \A g \in GraphNodes \ {mlast.node} : node_states[g] = mpre.node_states[g]

NarrowingIsNoOp(x, y) ==
  LET r == ResetToCommonAncestor(x, y)
  IN /\ Equals(r, x)
     /\ r.blocks = x.blocks
     /\ r.states = x.states
     /\ Size(r.blocks) = Size(x.blocks)
     /\ \A n \in Nodes : LookupState(r, n) = LookupState(x, n)

\* C13: narrowing a state towards itself or towards an equal state drops no
\* block and clears no index entry: the state, its depth and every lookup are
\* what they were before.
C13_NarrowToSelf ==
  /\ last.op = "Reset" => NarrowingIsNoOp(pre, pre) /\ NarrowingIsNoOp(a, a)
  /\ (last.op = "Reset" /\ Equals(pre, b)) =>
       /\ Equals(a, pre)
       /\ a.states = pre.states
       /\ Size(a.blocks) = Size(pre.blocks)
       /\ \A n \in Nodes : LookupState(a, n) = LookupState(pre, n)

\* a was narrowed towards an equal state of several blocks.
C13_Witness ==
  /\ last.op = "Reset"
  /\ Equals(pre, b)
  /\ Size(pre.blocks) = MaxDepth
  /\ \E n \in Nodes : IsSet(LookupState(a, n))

\* C14: after the five-argument UpdateStates(node, base, n, f, in_new_block)
\* the state stored for node is one block deeper than base when in_new_block
\* is set or base is empty and as deep as base otherwise; it returns f for n
\* and what base returns for every other node; node is reduced; the result is
\* the one of the two-argument UpdateStates for the derived state.
C14_CommitComposition ==
  mlast.op = "UpdateStates5" =>
    LET base == mlast.prev_states
        f == mlast.additional_state
        stored == node_states[mlast.node]
        was == mpre.node_states[mlast.node]
        derived == IF mlast.in_new_block \/ IsEmpty(base)
                   THEN AddStateInNewBlock(base, f.node, f)
                   ELSE AddState(base, f.node, f, was)
    IN /\ Size(stored.blocks) =
            IF mlast.in_new_block \/ IsEmpty(base)
            THEN Size(base.blocks) + 1 ELSE Size(base.blocks)
       /\ Size(stored.blocks) > 0
       /\ Rest(stored.blocks) =
            IF mlast.in_new_block \/ IsEmpty(base)
            THEN base.blocks ELSE Rest(base.blocks)
       /\ LookupState(stored, f.node) = f
       /\ \A n \in Nodes \ {f.node} :
            LookupState(stored, n) = LookupState(base, n)
       /\ reduced[mlast.node]
       /\ mlast.new_state = derived
       /\ Equals(stored, derived)
       /\ mlast.result = Reduction(~mpre.reduced[mlast.node],
                                   ~Equals(was, derived))
       /\ \A g \in GraphNodes \ {mlast.node} :
            /\ node_states[g] = mpre.node_states[g]
            /\ reduced[g] = mpre.reduced[g]

\* The AddState path with a stored state as hint, over a base that holds a
\* state of another node.
C14_Witness ==
  /\ mlast.op = "UpdateStates5"
  /\ ~mlast.in_new_block
  /\ ~IsEmpty(mlast.prev_states)
  /\ ~IsEmpty(mpre.node_states[mlast.node])
  /\ \E n \in Nodes \ {mlast.additional_state.node} :
       IsSet(LookupState(node_states[mlast.node], n))
  /\ mlast.result = "Changed"

\* The AddStateInNewBlock path over a base that is not empty.
C14_NewBlockReached ==
  /\ mlast.op = "UpdateStates5"
  /\ mlast.in_new_block
  /\ ~IsEmpty(mlast.prev_states)

\* The last call repeats the previous storing call on the same node: both are
\* five-argument UpdateStates with equal prev_states, the same additional
\* state and the same in_new_block.
RepeatedCommit ==
  /\ mlast.op = "UpdateStates5"
  /\ mprev.op = "UpdateStates5"
  /\ mprev.node = mlast.node
  /\ Equals(mprev.prev_states, mlast.prev_states)
  /\ mprev.additional_state = mlast.additional_state
  /\ mprev.in_new_block = mlast.in_new_block

C15_NewBlockRepeat ==
  /\ RepeatedCommit
  /\ mlast.in_new_block \/ IsEmpty(mlast.prev_states)

\* The hints tried on x.AddState(f.node, f, hint): no hint, the states at
\* hand, and states whose front block already is f on top of x's front block.
HintsFor(x, f) ==
  {EmptyPathState, a, b, p, pre,
   AddState(x, f.node, f, EmptyPathState),
   AddStateInNewBlock(EmptyPathState, f.node, f)}

SameResult(r, t) ==
  /\ Equals(r, t)
  /\ Size(r.blocks) = Size(t.blocks)
  /\ r.blocks = t.blocks
  /\ r.states = t.states
  /\ \A n \in Nodes : LookupState(r, n) = LookupState(t, n)

Bottom(l, k) == SubSeq(l, Size(l) - k + 1, Size(l))

\* The third loop never drops from an empty list: two lists of equal size
\* that differ are not empty, and so on down the lists.
RECURSIVE LockstepSafe(_, _)
LockstepSafe(l, m) ==
  \/ ListEquals(l, m)
  \/ /\ Size(l) > 0
     /\ Size(m) > 0
     /\ LockstepSafe(DropFront(l), DropFront(m))

\* r is what x.ResetToCommonAncestor(y) left in x.
OnlyTrims(x, y, r) ==
  LET k == Size(r.blocks)
  IN /\ k <= Size(x.blocks)
     /\ k <= Size(y.blocks)
     /\ r.blocks = Bottom(x.blocks, k)
     /\ r.blocks = Bottom(y.blocks, k)
     /\ LockstepSafe(TrimThis(x, Size(y.blocks)).blocks,
                     TrimOther(y.blocks, Size(x.blocks)))
     /\ (\/ IsEmpty(x)
         \/ IsEmpty(y)
         \/ Bottom(x.blocks, 1) # Bottom(y.blocks, 1))
          => r = EmptyPathState

\* C17: ResetToCommonAncestor ends, never drops from an empty list, and leaves
\* in the receiver a bottom part of its blocks, no deeper than either state,
\* that is also the bottom part of the other state; states with different
\* bottom blocks (or an empty one) give the empty state.
C17_OnlyTrims ==
  last.op = "Reset" =>
    /\ OnlyTrims(pre, b, a)
    /\ OnlyTrims(b, pre, ResetToCommonAncestor(b, pre))

\* a was narrowed from several blocks down to one that b has too.
C17_Witness ==
  /\ last.op = "Reset"
  /\ Size(pre.blocks) = MaxDepth
  /\ Size(a.blocks) = 1
  /\ Size(b.blocks) >= 1
  /\ pre.blocks # b.blocks

\* a was narrowed to the empty state from two states that are not empty.
C17_NoCommonBlock ==
  /\ last.op = "Reset"
  /\ ~IsEmpty(pre)
  /\ ~IsEmpty(b)
  /\ IsEmpty(a)

SameLookups(x, y) ==
  \A n \in Nodes : LookupState(x, n) = LookupState(y, n)

\* The last call stored, or found an equal state stored, for its node.
LastCallCommitted ==
  \/ mlast.op \in {"UpdateStates", "UpdateStates5"}
  \/ /\ mlast.op = "TakeStatesFromFirstControl"
     /\ mpre.reduced[GetControlInput(mlast.node)]

\* C18: operator== compares blocks_ only, and still two stored states that are
\* equal return the same LookupState for every node; after a call that reached
\* the two-argument UpdateStates the node's stored state (the one handed in, or
\* the equal one that was kept) looks up as the state handed in.
C18_EqualsSameLookups ==
  /\ \A g, h \in GraphNodes :
       Equals(node_states[g], node_states[h]) =>
         SameLookups(node_states[g], node_states[h])
  /\ LastCallCommitted =>
       /\ Equals(node_states[mlast.node], mlast.new_state)
       /\ SameLookups(node_states[mlast.node], mlast.new_state)

\* A merged state that is not empty was handed in and an equal one was kept.
C18_Witness ==
  /\ LastCallCommitted
  /\ mlast.op = "UpdateStates"
  /\ mlast.result = "NoChange"
  /\ \E n \in Nodes : IsSet(LookupState(mlast.new_state, n))

\* x.ResetToCommonAncestor(y) and y.ResetToCommonAncestor(x) leave the same.
Symmetric(x, y) ==
  LET r1 == ResetToCommonAncestor(x, y)
      r2 == ResetToCommonAncestor(y, x)
  IN /\ Equals(r1, r2)
     /\ SameLookups(r1, r2)

\* C19: a.ResetToCommonAncestor(b) and b.ResetToCommonAncestor(a), from the
\* same a and b, leave equal states in their receivers, with the same
\* LookupState for every node.
C19_NarrowingSymmetric ==
  last.op = "Reset" =>
    /\ Symmetric(pre, b)
    /\ Equals(a, ResetToCommonAncestor(b, pre))
    /\ SameLookups(a, ResetToCommonAncestor(b, pre))

\* a was narrowed towards a b of another depth, lost states, and something
\* is left.
C19_Witness ==
  /\ last.op = "Reset"
  /\ Size(pre.blocks) # Size(b.blocks)
  /\ ~IsEmpty(a)
  /\ ~SameLookups(pre, b)
  /\ ~SameLookups(pre, a)

====
